---------------------------- MODULE Spec2Model ----------------------------
(***************************************************************************)
(* openSwap UI development server (src/server.py): a static file server   *)
(* with CORS headers, built on http.server.SimpleHTTPRequestHandler and   *)
(* socketserver.TCPServer.                                                 *)
(*                                                                         *)
(* Strings whose content matters are sequences of characters.  A run of   *)
(* ordinary characters that is never taken apart (a file name, a word) is *)
(* written as one element, e.g. <<"/", "index.html">> is "/index.html".   *)
(***************************************************************************)
EXTENDS Integers, Sequences, FiniteSets, TLC

VARIABLES
    pc,         \* position of the main thread in main()
    argv,       \* sys.argv[1:], each argument a sequence of characters
    launch,     \* how the script was started: [cwd, file]
    directory,  \* DIRECTORY, a sequence of path components
    port,       \* the local `port` of main()
    listener,   \* the TCPServer socket: "none" | "bound" | "closed"
    boundPort,  \* httpd.server_address[1] once bound
    created,    \* number of listening sockets this process created
    busy,       \* ports held by other processes
    out,        \* what main() printed: [banner, stopped]
    exitCode,   \* process exit status <<code>>, <<>> while running
    conn,       \* per client connection: [st, io]
    accepted,   \* connections in the order accept() returned them
    answered,   \* connections in the order their handler finished
    backlog,    \* connections completed by the kernel, not yet accepted
    sig,        \* where main() was when SIGINT arrived, <<>> if it has not
    req,        \* request line and headers of the last request read
    resp,       \* what the handler wrote for it
    tp          \* translate_path exercised alone: [path, done, result]

vars == <<pc, argv, launch, directory, port, listener, boundPort, created,
          busy, out, exitCode, sig, conn, accepted, answered, backlog,
          req, resp, tp>>

procVars == <<pc, argv, launch, directory, port, listener, boundPort,
              created, busy, out, exitCode, sig>>
connVars == <<conn, accepted, answered, backlog>>
httpVars == <<req, resp>>

(***************************************************************************)
(* Bounds                                                                  *)
(***************************************************************************)
MaxPathLen == 5     \* characters in a request path given to translate_path
MaxConns == 2       \* client connections

(***************************************************************************)
(* Sequence helpers                                                        *)
(***************************************************************************)
BoundedSeqs(S, n) == UNION {[1..k -> S] : k \in 0..n}

IsPrefix(p, s) == Len(p) <= Len(s) /\ SubSeq(s, 1, Len(p)) = p

\* str.split(sep): the pieces between separators, empty pieces kept.
RECURSIVE SplitOn(_, _)
SplitOn(s, sep) ==
    IF s = <<>> THEN << <<>> >>
    ELSE LET rest == SplitOn(Tail(s), sep) IN
         IF Head(s) = sep THEN << <<>> >> \o rest
         ELSE << <<Head(s)>> \o Head(rest) >> \o Tail(rest)

\* sep.join(comps)
RECURSIVE JoinWith(_, _)
JoinWith(comps, sep) ==
    IF comps = <<>> THEN <<>>
    ELSE IF Len(comps) = 1 THEN Head(comps)
    ELSE Head(comps) \o <<sep>> \o JoinWith(Tail(comps), sep)

\* filter(None, words)
RECURSIVE NonEmpty(_)
NonEmpty(ws) ==
    IF ws = <<>> THEN <<>>
    ELSE IF Head(ws) = <<>> THEN NonEmpty(Tail(ws))
    ELSE <<Head(ws)>> \o NonEmpty(Tail(ws))

DotDot == <<".", ".">>
Dot == <<".">>

(***************************************************************************)
(* Path translation (SimpleHTTPRequestHandler.translate_path)              *)
(***************************************************************************)
\* path.split('?', 1)[0]
RECURSIVE CutAt(_, _)
CutAt(s, ch) ==
    IF s = <<>> \/ Head(s) = ch THEN <<>>
    ELSE <<Head(s)>> \o CutAt(Tail(s), ch)

\* urllib.parse.unquote on the escapes of the alphabet
UnquoteChar(c) ==
    CASE c = "%2e" -> "."
      [] c = "%2f" -> "/"
      [] OTHER -> c

Unquote(s) == [i \in 1..Len(s) |-> UnquoteChar(s[i])]

\* the loop of posixpath.normpath over the components
RECURSIVE NormComps(_, _, _)
NormComps(comps, acc, initial) ==
    IF comps = <<>> THEN acc
    ELSE LET c == Head(comps) IN
         IF c = <<>> \/ c = Dot THEN NormComps(Tail(comps), acc, initial)
         ELSE IF c # DotDot
                 \/ (initial = 0 /\ acc = <<>>)
                 \/ (acc # <<>> /\ acc[Len(acc)] = DotDot)
              THEN NormComps(Tail(comps), Append(acc, c), initial)
         ELSE IF acc # <<>>
              THEN NormComps(Tail(comps), SubSeq(acc, 1, Len(acc) - 1), initial)
         ELSE NormComps(Tail(comps), acc, initial)

InitialSlashes(p) ==
    IF p = <<>> \/ p[1] # "/" THEN 0
    ELSE IF Len(p) >= 2 /\ p[2] = "/" /\ ~(Len(p) >= 3 /\ p[3] = "/") THEN 2
    ELSE 1

\* posixpath.normpath
NormPath(p) ==
    IF p = <<>> THEN Dot
    ELSE LET init == InitialSlashes(p)
             body == JoinWith(NormComps(SplitOn(p, "/"), <<>>, init), "/")
             res == [i \in 1..init |-> "/"] \o body
         IN IF res = <<>> THEN Dot ELSE res

\* the word filter of translate_path: components that are not a simple
\* file or directory name are ignored
SkipWord(w) == w = Dot \/ w = DotDot

RECURSIVE JoinWords(_, _)
JoinWords(base, ws) ==
    IF ws = <<>> THEN base
    ELSE IF SkipWord(Head(ws)) THEN JoinWords(base, Tail(ws))
    ELSE JoinWords(Append(base, Head(ws)), Tail(ws))

\* str.rstrip().endswith('/')
RECURSIVE RStrip(_)
RStrip(s) ==
    IF s # <<>> /\ s[Len(s)] = " " THEN RStrip(SubSeq(s, 1, Len(s) - 1))
    ELSE s

EndsWithSlash(s) == LET t == RStrip(s) IN t # <<>> /\ t[Len(t)] = "/"

\* the directory a handler serves from: CORSHTTPRequestHandler.__init__
\* passes directory=DIRECTORY; without it the base class uses os.getcwd()
HandlerDirectoryCwd(dir, cwd) == cwd

HandlerDirectory(dir, cwd) == dir

\* translate_path: [comps: the components of the local path,
\*                  slash: whether '/' is appended]
TranslatePath(path, base) ==
    LET p1 == CutAt(CutAt(path, "?"), "#")
        words == NonEmpty(SplitOn(NormPath(Unquote(p1)), "/"))
    IN [comps |-> JoinWords(base, words), slash |-> EndsWithSlash(p1)]

\* the file the operating system opens for an absolute path given by its
\* components: "." stays, ".." goes up, never above "/"
RECURSIVE OsResolve(_, _)
OsResolve(comps, acc) ==
    IF comps = <<>> THEN acc
    ELSE IF Head(comps) = Dot THEN OsResolve(Tail(comps), acc)
    ELSE IF Head(comps) = DotDot
         THEN OsResolve(Tail(comps),
                        IF acc = <<>> THEN acc ELSE SubSeq(acc, 1, Len(acc) - 1))
    ELSE OsResolve(Tail(comps), Append(acc, Head(comps)))

(***************************************************************************)
(* DIRECTORY = os.path.dirname(os.path.abspath(__file__))                  *)
(***************************************************************************)
\* where server.py is installed
ScriptDir == << <<"srv">>, <<"ui">> >>

\* ways of starting the script: the working directory (absolute) and the
\* script path as given to the interpreter
Launches ==
    { [cwd |-> <<"/", "srv", "/", "ui">>, file |-> <<"server.py">>],
      [cwd |-> <<"/", "srv">>, file |-> <<"ui", "/", "server.py">>],
      [cwd |-> <<"/", "home">>,
       file |-> <<"/", "srv", "/", "ui", "/", "server.py">>],
      [cwd |-> <<"/", "srv", "/", "ui", "/", "js">>,
       file |-> <<".", ".", "/", "server.py">>] }

\* os.path.abspath
AbsPath(cwd, file) ==
    IF file # <<>> /\ file[1] = "/" THEN NormPath(file)
    ELSE NormPath(cwd \o <<"/">> \o file)

\* os.path.dirname, as components
DirName(p) ==
    LET cs == NonEmpty(SplitOn(p, "/")) IN SubSeq(cs, 1, Len(cs) - 1)

DIRECTORY(l) == DirName(AbsPath(l.cwd, l.file))

CwdComps(l) == NonEmpty(SplitOn(l.cwd, "/"))

(***************************************************************************)
(* Command line: port = int(sys.argv[1]) if len(sys.argv) > 1 else PORT    *)
(***************************************************************************)
PORT == 8080

Digits == {"0", "1", "2", "3", "4", "5", "6", "7", "8", "9"}

DigitVal(c) ==
    CASE c = "0" -> 0 [] c = "1" -> 1 [] c = "2" -> 2 [] c = "3" -> 3
      [] c = "4" -> 4 [] c = "5" -> 5 [] c = "6" -> 6 [] c = "7" -> 7
      [] c = "8" -> 8 [] c = "9" -> 9

RECURSIVE LStrip(_)
LStrip(s) == IF s # <<>> /\ Head(s) = " " THEN LStrip(Tail(s)) ELSE s

\* digits with single underscores between them
DigitBody(s) ==
    /\ s # <<>>
    /\ \A i \in 1..Len(s) : s[i] \in Digits \/ s[i] = "_"
    /\ s[1] # "_" /\ s[Len(s)] # "_"
    /\ \A i \in 1..(Len(s) - 1) : ~(s[i] = "_" /\ s[i + 1] = "_")

RECURSIVE DigitsValue(_, _)
DigitsValue(s, acc) ==
    IF s = <<>> THEN acc
    ELSE IF Head(s) = "_" THEN DigitsValue(Tail(s), acc)
    ELSE DigitsValue(Tail(s), 10 * acc + DigitVal(Head(s)))

\* int(s) in base 10: [ok, val]; ok = FALSE stands for ValueError
IntParse(s) ==
    LET t == RStrip(LStrip(s))
        signed == t # <<>> /\ Head(t) \in {"+", "-"}
        body == IF signed THEN Tail(t) ELSE t
    IN IF ~DigitBody(body) THEN [ok |-> FALSE, val |-> 0]
       ELSE [ok |-> TRUE,
             val |-> IF signed /\ Head(t) = "-"
                     THEN 0 - DigitsValue(body, 0)
                     ELSE DigitsValue(body, 0)]

\* line 34 with a fallback to PORT on a bad argument
MainPortFallback(av) ==
    IF Len(av) > 0 /\ IntParse(av[1]).ok THEN IntParse(av[1])
    ELSE [ok |-> TRUE, val |-> PORT]

\* line 34 reading the last argument instead of the first
MainPortLast(av) ==
    IF Len(av) > 0 THEN IntParse(av[Len(av)])
    ELSE [ok |-> TRUE, val |-> PORT]

\* line 34
MainPort(av) ==
    IF Len(av) > 0 THEN IntParse(av[1])
    ELSE [ok |-> TRUE, val |-> PORT]

Arg9090 == <<"9", "0", "9", "0">>

\* arguments that int() rejects
BadArgs ==
    { <<"a", "b", "c">>, <<>>, <<"8", "0", "x">>, <<"8", " ", "0">>,
      <<"-">>, <<"_", "8">>, <<"8", ".", "0">> }

\* arguments that int() accepts
GoodArgs ==
    { Arg9090, <<"0">>, <<"7", "0", "0", "0", "0">>, <<"-", "1">>,
      <<" ", "+", "9", "_", "0", "9", "0", " ">>, <<"8", "0", "8", "0">> }

Argvs ==
    { <<>> } \cup { <<a>> : a \in BadArgs \cup GoodArgs }
             \cup { <<Arg9090, <<"8", "0", "8", "0">> >>,
                    <<Arg9090, <<"x">> >>, << <<"x">>, Arg9090 >> }

(***************************************************************************)
(* The listener: socketserver.TCPServer(("", port), ...) as httpd          *)
(***************************************************************************)
\* ports the kernel hands out for a bind to port 0
EphemeralPorts == {49152, 49153}

\* sets of ports on which bind() is refused (held by another instance)
BusySets == { {}, {8080}, {9090, 49152} }

\* socket.bind raises: OverflowError outside 0..65535, OSError when taken
BindFails(p, taken) == p \notin 0..65535 \/ p \in taken

\* getsockname() after a successful bind
BoundChoices(p, taken) ==
    IF p = 0 THEN EphemeralPorts \ taken ELSE {p}

\* a `with` block that does not close the server on the way out
WithExitLeak(l) == l

\* TCPServer.__exit__: server_close()
WithExit(l) == "closed"

\* the try block of main() covers serve_forever() only
InterruptCaught(p) == p \in {"serving", "handling"}

(***************************************************************************)
(* Files on disk                                                           *)
(***************************************************************************)
\* kind of the file at an absolute path given by its resolved components
FsKind(comps) ==
    CASE comps \in { <<>>, << <<"srv">> >>, ScriptDir, << <<"etc">> >>,
                     << <<"home">> >>, ScriptDir \o << <<"js">> >> } -> "dir"
      [] comps \in { ScriptDir \o << <<"index.html">> >>,
                     ScriptDir \o << <<"server.py">> >>,
                     ScriptDir \o << <<"js">>, <<"app.js">> >>,
                     << <<"etc">>, <<"passwd">> >>,
                     << <<"home">>, <<"notes">> >> } -> "file"
      [] comps = ScriptDir \o << <<"secret">> >> -> "locked"
      [] OTHER -> "none"

(***************************************************************************)
(* Response writing (BaseHTTPRequestHandler, CORSHTTPRequestHandler)       *)
(***************************************************************************)
Version(prefix, parts) == [prefix |-> prefix, parts |-> parts]

V09 == Version("HTTP/", << <<"0">>, <<"9">> >>)
V10 == Version("HTTP/", << <<"1">>, <<"0">> >>)
V11 == Version("HTTP/", << <<"1">>, <<"1">> >>)
V20 == Version("HTTP/", << <<"2">>, <<"0">> >>)
VNone == Version("", <<>>)

\* a response body: nothing, the error page, a directory listing or a file
Body(kind, file) == [kind |-> kind, file |-> file]

\* a handler while it answers one request: the request version it goes by,
\* the command, the header buffer, what reached the socket, the access log
\* lines printed and the local paths looked up on disk
NewHandler ==
    [rv |-> V09, command |-> "",
     bufLine |-> <<>>, bufHdrs |-> <<>>,
     line |-> <<>>, hdrs |-> <<>>, body |-> Body("none", <<>>), log |-> <<>>,
     resolved |-> <<>>]

SendResponseOnly(h, code) ==
    IF h.rv # V09 THEN [h EXCEPT !.bufLine = Append(@, code)] ELSE h

SendHeader(h, k, v) ==
    IF h.rv # V09 THEN [h EXCEPT !.bufHdrs = Append(@, <<k, v>>)] ELSE h

\* BaseHTTPRequestHandler.end_headers with flush_headers
BaseEndHeaders(h) ==
    IF h.rv # V09
    THEN [h EXCEPT !.line = @ \o h.bufLine, !.hdrs = @ \o h.bufHdrs,
                   !.bufLine = <<>>, !.bufHdrs = <<>>]
    ELSE h

\* end_headers that forgets the cache header
EndHeadersNoCache(h) ==
    BaseEndHeaders(
      SendHeader(
        SendHeader(
          SendHeader(h, "Access-Control-Allow-Origin", "*"),
          "Access-Control-Allow-Methods", "GET, POST, OPTIONS"),
        "Access-Control-Allow-Headers", "Content-Type"))

\* CORSHTTPRequestHandler.end_headers
EndHeaders(h) ==
    BaseEndHeaders(
      SendHeader(
        SendHeader(
          SendHeader(
            SendHeader(h, "Access-Control-Allow-Origin", "*"),
            "Access-Control-Allow-Methods", "GET, POST, OPTIONS"),
          "Access-Control-Allow-Headers", "Content-Type"),
        "Cache-Control", "no-store, no-cache, must-revalidate"))

\* CORSHTTPRequestHandler.log_message, called by log_request and log_error
LogMessage(h, code) == [h EXCEPT !.log = Append(@, code)]

SendResponse(h, code) ==
    SendHeader(
      SendHeader(SendResponseOnly(LogMessage(h, code), code),
                 "Server", "SimpleHTTP"),
      "Date", "now")

SendError(h, code) ==
    LET h1 == SendHeader(SendResponse(LogMessage(h, code), code),
                         "Connection", "close")
        hasBody == code >= 200 /\ code \notin {204, 205, 304}
        h2 == IF hasBody
              THEN SendHeader(SendHeader(h1, "Content-Type", "text/html"),
                              "Content-Length", "n")
              ELSE h1
        h3 == EndHeaders(h2)
    IN IF h.command # "HEAD" /\ hasBody
       THEN [h3 EXCEPT !.body = Body("error", <<>>)]
       ELSE h3

(***************************************************************************)
(* Requests                                                                *)
(***************************************************************************)
\* a request as read from the socket: the request line has n words (the
\* method, the path, and last the version; a fourth word sits in between),
\* hdrs tells what the header block holds, long is a line over 65536 bytes
Request(n, method, path, version, hdrs, long) ==
    [n |-> n, method |-> method, path |-> path, version |-> version,
     hdrs |-> hdrs, long |-> long]

\* a version word that is "HTTP/<int>.<int>"
VersionOk(v) ==
    /\ v.prefix = "HTTP/"
    /\ Len(v.parts) = 2
    /\ IntParse(v.parts[1]).ok /\ IntParse(v.parts[2]).ok

VersionNumber(v) == <<IntParse(v.parts[1]).val, IntParse(v.parts[2]).val>>

\* tuple comparison a >= b
TupleGeq(a, b) == a[1] > b[1] \/ (a[1] = b[1] /\ a[2] >= b[2])

RECURSIVE LStripSlash(_)
LStripSlash(s) ==
    IF s # <<>> /\ Head(s) = "/" THEN LStripSlash(Tail(s)) ELSE s

\* gh-87389: a path starting with '//' is reduced to a single '/'
CollapseSlashes(p) ==
    IF Len(p) >= 2 /\ p[1] = "/" /\ p[2] = "/" THEN <<"/">> \o LStripSlash(p)
    ELSE p

\* BaseHTTPRequestHandler.parse_request: [ok, h, path]
ParseRequest(h, r) ==
    LET h0 == [h EXCEPT !.rv = V09, !.command = ""]
        fail(hh, code) == [ok |-> FALSE, h |-> SendError(hh, code), path |-> <<>>]
        h1 == IF r.n >= 3 THEN [h0 EXCEPT !.rv = r.version] ELSE h0
        h2 == [h1 EXCEPT !.command = r.method]
    IN IF r.n = 0 THEN [ok |-> FALSE, h |-> h0, path |-> <<>>]
       ELSE IF r.n >= 3 /\ ~VersionOk(r.version) THEN fail(h0, 400)
       ELSE IF r.n >= 3 /\ TupleGeq(VersionNumber(r.version), <<2, 0>>)
            THEN fail(h0, 505)
       ELSE IF r.n \notin {2, 3} THEN fail(h1, 400)
       ELSE IF r.n = 2 /\ r.method # "GET" THEN fail(h1, 400)
       ELSE IF r.hdrs = "toomany" THEN fail(h2, 431)
       ELSE [ok |-> TRUE, h |-> h2, path |-> CollapseSlashes(r.path)]

(***************************************************************************)
(* Static files (SimpleHTTPRequestHandler)                                 *)
(***************************************************************************)
\* urlsplit(path).path.endswith('/')
UrlPathEndsWithSlash(path) ==
    LET p1 == CutAt(CutAt(path, "?"), "#") IN p1 # <<>> /\ p1[Len(p1)] = "/"

IsFile(comps) == FsKind(comps) \in {"file", "locked"}

\* the 200 answer for an open file, or 304 when the client's copy is fresh
SendFileHead(h, file, ims) ==
    IF ims
    THEN [h |-> EndHeaders(SendResponse(h, 304)), file |-> <<>>, open |-> FALSE]
    ELSE [h |-> EndHeaders(
                  SendHeader(
                    SendHeader(
                      SendHeader(SendResponse(h, 200), "Content-type", "guessed"),
                      "Content-Length", "n"),
                    "Last-Modified", "mtime")),
          file |-> file, open |-> TRUE]

\* list_directory
ListDirectory(h, dir) ==
    [h |-> EndHeaders(
             SendHeader(
               SendHeader(SendResponse(h, 200), "Content-type", "text/html"),
               "Content-Length", "n")),
     file |-> dir, open |-> TRUE]

\* send_head: [h, file, open]; open says a file object is returned
SendHead(h0, path, ims, base) ==
    LET t == TranslatePath(path, base)
        fs == OsResolve(t.comps, <<>>)
        h == [h0 EXCEPT !.resolved = Append(@, fs)]
        none(hh) == [h |-> hh, file |-> <<>>, open |-> FALSE]
        index == fs \o << <<"index.html">> >>
        index2 == fs \o << <<"index.htm">> >>
        serve(file, slash) ==
            IF slash THEN none(SendError(h, 404))
            ELSE IF FsKind(file) # "file" THEN none(SendError(h, 404))
            ELSE SendFileHead(h, file, ims)
    IN IF FsKind(fs) = "dir"
       THEN IF ~UrlPathEndsWithSlash(path)
            THEN none(EndHeaders(
                        SendHeader(
                          SendHeader(SendResponse(h, 301), "Location", "path/"),
                          "Content-Length", "0")))
            ELSE IF IsFile(index) THEN serve(index, FALSE)
            ELSE IF IsFile(index2) THEN serve(index2, FALSE)
            ELSE ListDirectory(h, fs)
       ELSE serve(fs, t.slash)

\* do_GET: send_head, then copyfile
DoGET(h, path, ims, base) ==
    LET r == SendHead(h, path, ims, base) IN
    IF r.open
    THEN [r.h EXCEPT !.body = Body(IF FsKind(r.file) = "dir" THEN "listing"
                                   ELSE "file", r.file)]
    ELSE r.h

\* do_HEAD: send_head, the file is closed unread
DoHEAD(h, path, ims, base) == SendHead(h, path, ims, base).h

\* do_OPTIONS that goes through the file-serving path
DoOPTIONSServe(h, path, ims, base) == DoHEAD(h, path, ims, base)

\* CORSHTTPRequestHandler.do_OPTIONS
DoOPTIONS(h, path, ims, base) == EndHeaders(SendResponse(h, 200))

\* hasattr(self, 'do_' + command)
HasMethod(command) == command \in {"GET", "HEAD", "OPTIONS"}

\* handle_one_request: the handler after the request was answered
HandleOneRequest(r, base) ==
    IF r.long
    THEN SendError([NewHandler EXCEPT !.rv = VNone], 414)
    ELSE LET p == ParseRequest(NewHandler, r)
             ims == r.hdrs = "ims"
         IN IF ~p.ok THEN p.h
            ELSE IF ~HasMethod(p.h.command) THEN SendError(p.h, 501)
            ELSE CASE p.h.command = "OPTIONS" -> DoOPTIONS(p.h, p.path, ims, base)
                   [] p.h.command = "HEAD" -> DoHEAD(p.h, p.path, ims, base)
                   [] OTHER -> DoGET(p.h, p.path, ims, base)

\* what the client receives
Response(h) ==
    [line |-> h.line, hdrs |-> h.hdrs, body |-> h.body, log |-> h.log,
     resolved |-> h.resolved]

NoResponse == Response(NewHandler)

(***************************************************************************)
(* Inputs                                                                  *)
(***************************************************************************)
Methods == {"GET", "HEAD", "POST", "OPTIONS", "PUT"}

PathIndex == <<"/", "index.html">>
PathMissing == <<"/", "missing">>
PathTraversal == <<"/", ".", ".", "/", ".", ".", "/", "etc", "/", "passwd">>

Paths ==
    { <<"/">>, PathIndex, PathMissing, PathTraversal,
      <<"/", "js">>, <<"/", "js", "/">>, <<"/", "js", "/", "app.js">>,
      <<"/", "secret">>, <<"/", "index.html", "/">>,
      <<"/", "/", "js", "/", "%2e", "%2e", "%2f", "index.html", "?", "q">> }

Versions ==
    { V11, V10, V09, V20,
      Version("FTP/", << <<"1">>, <<"1">> >>),
      Version("HTTP/", << <<"1">> >>),
      Version("HTTP/", << <<"x">>, <<"1">> >>) }

HeaderBlocks == {"plain", "ims", "toomany"}

BlankLine == Request(0, "", <<>>, VNone, "plain", FALSE)

AllRequests ==
    { Request(3, m, p, v, hd, FALSE) :
        m \in Methods, p \in Paths, v \in Versions, hd \in HeaderBlocks }
    \cup { Request(2, m, p, VNone, hd, FALSE) :
        m \in Methods, p \in Paths, hd \in HeaderBlocks }
    \cup { Request(4, m, p, v, "plain", FALSE) :
        m \in Methods, p \in Paths, v \in {V11, V20} }
    \cup { Request(1, m, <<>>, VNone, "plain", FALSE) : m \in Methods }
    \cup { BlankLine, Request(3, "GET", PathIndex, V11, "plain", TRUE) }

\* the requests clients send in the serve loop
LoopRequests ==
    { Request(3, "GET", PathIndex, V11, "plain", FALSE),
      Request(3, "GET", PathMissing, V11, "plain", FALSE),
      Request(3, "GET", <<"/", "secret">>, V10, "plain", FALSE),
      Request(3, "OPTIONS", PathMissing, V11, "plain", FALSE),
      Request(3, "POST", PathIndex, V11, "plain", FALSE),
      Request(2, "GET", PathIndex, VNone, "plain", FALSE),
      BlankLine }

PathChars == {"/", ".", "a", "%2e", "%2f", "?"}

Conns == 1..MaxConns

\* TCPServer.request_queue_size
RequestQueueSize == 5

(***************************************************************************)
(* The process                                                             *)
(***************************************************************************)
IdleTp == [path |-> <<>>, done |-> FALSE,
           result |-> [comps |-> <<>>, slash |-> FALSE]]

InitProc(avs, ls, bs) ==
    /\ argv \in avs
    /\ launch \in ls
    /\ directory = DIRECTORY(launch)
    /\ busy \in bs
    /\ port = <<>>
    /\ listener = "none"
    /\ boundPort = <<>>
    /\ created = 0
    /\ out = [banner |-> <<>>, stopped |-> FALSE]
    /\ exitCode = <<>>
    /\ sig = <<>>

InitConn ==
    /\ conn = [c \in Conns |-> [st |-> "idle", io |-> "silent", status |-> <<>>]]
    /\ accepted = <<>>
    /\ answered = <<>>
    /\ backlog = <<>>

Init ==
    /\ pc = "start"
    /\ InitProc(Argvs, Launches, BusySets)
    /\ InitConn
    /\ req = BlankLine
    /\ resp = NoResponse
    /\ tp = IdleTp

Running == exitCode = <<>>

\* line 34
ParseArgs ==
    /\ pc = "start" /\ Running
    /\ LET r == MainPort(argv) IN
       IF r.ok
       THEN /\ port' = <<r.val>>
            /\ pc' = "bind"
            /\ UNCHANGED exitCode
       ELSE /\ pc' = "exited"
            /\ exitCode' = <<1>>
            /\ UNCHANGED port
    /\ UNCHANGED <<argv, launch, directory, listener, boundPort, created,
                   busy, out, sig, connVars, httpVars, tp>>

\* line 36: the socket is created, bound and set listening, or the
\* constructor closes it and the exception ends the process
Bind ==
    /\ pc = "bind" /\ Running
    /\ created' = created + 1
    /\ IF BindFails(port[1], busy) \/ BoundChoices(port[1], busy) = {}
       THEN /\ listener' = "closed"
            /\ pc' = "exited"
            /\ exitCode' = <<1>>
            /\ UNCHANGED boundPort
       ELSE /\ listener' = "bound"
            /\ \E p \in BoundChoices(port[1], busy) : boundPort' = <<p>>
            /\ pc' = "banner"
            /\ UNCHANGED exitCode
    /\ UNCHANGED <<argv, launch, directory, port, busy, out, sig, connVars,
                   httpVars, tp>>

\* lines 37-52, then the try block is entered
PrintBanner ==
    /\ pc = "banner" /\ Running
    /\ out' = [out EXCEPT !.banner = port]
    /\ pc' = "serving"
    /\ UNCHANGED <<argv, launch, directory, port, listener, boundPort,
                   created, busy, exitCode, sig, connVars, httpVars, tp>>

\* SIGINT: KeyboardInterrupt is raised in the main thread where it stands
Interrupt ==
    /\ Running /\ sig = <<>>
    /\ sig' = <<pc>>
    /\ pc' = "exited"
    /\ IF InterruptCaught(pc)
       THEN /\ out' = [out EXCEPT !.stopped = TRUE]
            /\ exitCode' = <<0>>
       ELSE /\ exitCode' = <<130>>
            /\ UNCHANGED out
    /\ listener' = IF listener = "bound" THEN WithExit(listener) ELSE listener
    /\ conn' = [c \in Conns |->
                  IF conn[c].st = "handling"
                  THEN [conn[c] EXCEPT !.st = "aborted"] ELSE conn[c]]
    /\ UNCHANGED <<argv, launch, directory, port, boundPort, created, busy,
                   accepted, answered, backlog, httpVars, tp>>

\* an exception other than KeyboardInterrupt leaves serve_forever()
ServeFault ==
    /\ pc = "serving" /\ Running
    /\ pc' = "exited"
    /\ exitCode' = <<1>>
    /\ listener' = WithExit(listener)
    /\ UNCHANGED <<argv, launch, directory, port, boundPort, created, busy,
                   out, sig, connVars, httpVars, tp>>

(***************************************************************************)
(* Connections and the serve loop (httpd.serve_forever(), line 54)         *)
(***************************************************************************)
\* a client completes the TCP handshake; the kernel queues the connection
Connect(c) ==
    /\ Running /\ listener = "bound"
    /\ conn[c].st = "idle"
    /\ Len(backlog) < RequestQueueSize
    /\ conn' = [conn EXCEPT ![c].st = "queued"]
    /\ backlog' = Append(backlog, c)
    /\ UNCHANGED <<procVars, accepted, answered, httpVars, tp>>

\* the client sends its request
ClientSend(c) ==
    /\ Running
    /\ conn[c].st \in {"queued", "handling"} /\ conn[c].io = "silent"
    /\ conn' = [conn EXCEPT ![c].io = "sent"]
    /\ UNCHANGED <<procVars, accepted, answered, backlog, httpVars, tp>>

\* the client closes without having sent anything
ClientClose(c) ==
    /\ Running
    /\ conn[c].st \in {"queued", "handling"} /\ conn[c].io = "silent"
    /\ conn' = [conn EXCEPT ![c].io = "closed"]
    /\ UNCHANGED <<procVars, accepted, answered, backlog, httpVars, tp>>

\* a server that hands each connection to its own thread
AcceptReadyThreaded(p) == p \in {"serving", "handling"}

\* TCPServer.process_request runs the handler in the loop's own thread:
\* select() is reached again only when the handler has returned
AcceptReady(p) == p = "serving"

\* _handle_request_noblock: get_request(), then the handler is constructed
Accept ==
    /\ Running /\ AcceptReady(pc)
    /\ backlog # <<>>
    /\ LET c == Head(backlog) IN
       /\ conn' = [conn EXCEPT ![c].st = "handling"]
       /\ accepted' = Append(accepted, c)
    /\ backlog' = Tail(backlog)
    /\ pc' = "handling"
    /\ UNCHANGED <<argv, launch, directory, port, listener, boundPort,
                   created, busy, out, exitCode, sig, answered, httpVars, tp>>

\* a loop in which an exception of the handler is not caught
HandlerErrorEscapesAlways(broke) == broke

\* _handle_request_noblock: `except Exception` calls handle_error() and
\* shutdown_request(), the loop goes on
HandlerErrorEscapes(broke) == FALSE

\* the handler reads the request line, answers and returns; the client may
\* go away while the answer is written (BrokenPipeError, ConnectionReset)
Handle(c) ==
    /\ Running
    /\ conn[c].st = "handling" /\ conn[c].io \in {"sent", "closed"}
    /\ \E r \in LoopRequests, broke \in BOOLEAN :
         /\ conn[c].io = "closed" => (r = BlankLine /\ ~broke)
         /\ LET full == Response(HandleOneRequest(
                           r, HandlerDirectory(directory, CwdComps(launch))))
                got == IF broke THEN NoResponse ELSE full
            IN /\ req' = r
               /\ resp' = got
               /\ conn' = [conn EXCEPT ![c].st = "done",
                                       ![c].io = IF broke THEN "reset" ELSE @,
                                       ![c].status = got.line]
         /\ IF HandlerErrorEscapes(broke)
            THEN /\ pc' = "exited"
                 /\ exitCode' = <<1>>
                 /\ listener' = WithExit(listener)
            ELSE /\ pc' = "serving"
                 /\ UNCHANGED <<exitCode, listener>>
    /\ answered' = Append(answered, c)
    /\ UNCHANGED <<argv, launch, directory, port, boundPort, created, busy,
                   out, sig, accepted, backlog, tp>>

Next ==
    \/ ParseArgs
    \/ Bind
    \/ PrintBanner
    \/ Interrupt
    \/ ServeFault
    \/ Accept
    \/ \E c \in Conns : Connect(c)
    \/ \E c \in Conns : ClientSend(c)
    \/ \E c \in Conns : ClientClose(c)
    \/ \E c \in Conns : Handle(c)

Spec == Init /\ [][Next]_vars

(***************************************************************************)
(* The handler alone, on every request of AllRequests                      *)
(***************************************************************************)
InitHttp ==
    /\ pc = "handler"
    /\ InitProc({<<>>}, Launches, {{}})
    /\ InitConn
    /\ req \in AllRequests
    /\ resp = NoResponse
    /\ tp = IdleTp

Respond ==
    /\ pc = "handler"
    /\ resp' = Response(HandleOneRequest(
                  req, HandlerDirectory(directory, CwdComps(launch))))
    /\ pc' = "handled"
    /\ UNCHANGED <<argv, launch, directory, port, listener, boundPort,
                   created, busy, out, exitCode, sig, connVars, req, tp>>

SpecHttp == InitHttp /\ [][Respond]_vars

(***************************************************************************)
(* translate_path alone, on every path of at most MaxPathLen characters    *)
(***************************************************************************)
InitPath ==
    /\ pc = "translate"
    /\ InitProc({<<>>}, Launches, {{}})
    /\ InitConn
    /\ req = BlankLine
    /\ resp = NoResponse
    /\ \E p \in BoundedSeqs(PathChars, MaxPathLen) :
         tp = [IdleTp EXCEPT !.path = p]

Translate ==
    /\ pc = "translate"
    /\ tp' = [tp EXCEPT
                !.done = TRUE,
                !.result = TranslatePath(
                    tp.path, HandlerDirectory(directory, CwdComps(launch)))]
    /\ pc' = "translated"
    /\ UNCHANGED <<argv, launch, directory, port, listener, boundPort,
                   created, busy, out, exitCode, sig, connVars, httpVars>>

SpecPath == InitPath /\ [][Translate]_vars

(***************************************************************************)
(* Properties                                                              *)
(***************************************************************************)
CorsHeaders ==
    { <<"Access-Control-Allow-Origin", "*">>,
      <<"Access-Control-Allow-Methods", "GET, POST, OPTIONS">>,
      <<"Access-Control-Allow-Headers", "Content-Type">>,
      <<"Cache-Control", "no-store, no-cache, must-revalidate">> }

\* each of the four headers is present, and with no other value
CarriesCors(r) ==
    \A kv \in CorsHeaders :
        /\ \E i \in DOMAIN r.hdrs : r.hdrs[i] = kv
        /\ \A i \in DOMAIN r.hdrs : r.hdrs[i][1] = kv[1] => r.hdrs[i][2] = kv[2]

\* something was written to the client
Sent(r) == r.line # <<>> \/ r.hdrs # <<>> \/ r.body.kind # "none"

\* a request line "<method> <path> HTTP/1.x" followed by a header block
\* the parser accepts
WellFormed(r) ==
    r.n = 3 /\ r.version \in {V10, V11} /\ r.hdrs # "toomany" /\ ~r.long

ExistingFiles == { PathIndex, <<"/", "js", "/", "app.js">> }

\* C1 as stated: every response the server sends, whatever the method, the
\* status or the request line, carries the four CORS and cache headers.
C1_EveryResponseCarriesCors ==
    (pc = "handled" /\ Sent(resp)) => CarriesCors(resp)

\* C1 amended: every response sent with a status line carries the four
\* headers with exactly their values, and a request line with an HTTP/1.x
\* version (or one that is too long) always gets such a response; what is
\* sent to a version-less or bad-version request line has no header at all.
C1_StatusLineResponsesCarryCors ==
    pc = "handled" =>
        /\ resp.line # <<>> => CarriesCors(resp)
        /\ (req.long \/ (req.n >= 3 /\ req.version \in {V10, V11}))
              => (Len(resp.line) = 1 /\ CarriesCors(resp))
        /\ resp.line = <<>> => resp.hdrs = <<>>

C1_Witness ==
    /\ pc = "handled"
    /\ req.method = "PUT" /\ req.version = V11
    /\ resp.line = <<501>>
    /\ CarriesCors(resp)

\* C2: a well-formed OPTIONS request for any path, existing or not, gets
\* status 200, no body and the four headers, and no local path is looked up.
C2_OptionsPreflight ==
    (pc = "handled" /\ req.method = "OPTIONS" /\ WellFormed(req)) =>
        /\ resp.line = <<200>>
        /\ resp.body.kind = "none"
        /\ CarriesCors(resp)
        /\ resp.resolved = <<>>

C2_Witness ==
    /\ pc = "handled"
    /\ req.method = "OPTIONS" /\ WellFormed(req) /\ req.path = PathMissing
    /\ resp.line = <<200>>
    /\ resp.resolved = <<>>

\* C3 as stated: GET, HEAD and POST naming an existing file are all answered
\* by the static-file path (200, the file as body except for HEAD) with the
\* four headers.
C3_GetHeadPostServeFile ==
    (/\ pc = "handled"
     /\ req.method \in {"GET", "HEAD", "POST"}
     /\ WellFormed(req) /\ req.hdrs = "plain"
     /\ req.path \in ExistingFiles) =>
        /\ resp.line = <<200>>
        /\ CarriesCors(resp)
        /\ resp.resolved # <<>>
        /\ req.method # "HEAD" => resp.body.kind = "file"

\* C4 as stated: an interrupt that arrives once the listener is bound (in
\* the banner, in the idle loop or in a handler) ends the process with the
\* stop message, exit status 0 and the listener closed.
C4_InterruptStopsCleanly ==
    (sig # <<>> /\ sig[1] \in {"banner", "serving", "handling"}) =>
        /\ out.stopped
        /\ exitCode = <<0>>
        /\ listener = "closed"

\* C5: whenever a handler finishes, whatever it answered (404, 501, nothing
\* at all, or a client gone in the middle of the answer), the process is
\* back in its accept loop with the listener bound; and what a request is
\* answered does not depend on the requests before it.
C5_RequestFailureKeepsServing ==
    [][answered' # answered =>
         /\ pc' = "serving"
         /\ listener' = "bound"
         /\ exitCode' = <<>>
         /\ LET c == answered'[Len(answered')] IN
            conn'[c].io = "sent" =>
              /\ (req'.method = "GET" /\ req'.path = PathIndex)
                    => resp'.body.kind = "file"
              /\ (req'.path = PathMissing /\ req'.method = "GET")
                    => resp'.line = <<404>>]_vars

C5_Witness ==
    /\ pc = "serving" /\ listener = "bound"
    /\ Len(answered) = 2
    /\ conn[answered[1]].status = <<404>>
    /\ conn[answered[2]].status = <<200>>

\* C6: with a port argument int() rejects, or a port that cannot be bound,
\* the process never prints the banner, never serves, keeps no listener,
\* makes at most one bind attempt and, once ended, has a non-zero status.
C6_StartupErrorsFatal ==
    LET badArg == Len(argv) > 0 /\ argv[1] \in BadArgs
        unbindable == port # <<>> /\ (port[1] \in busy \/ port[1] \notin 0..65535)
    IN (badArg \/ unbindable) =>
        /\ pc \in {"start", "bind", "exited"}
        /\ listener # "bound" /\ boundPort = <<>>
        /\ out.banner = <<>>
        /\ accepted = <<>>
        /\ created <= 1
        /\ badArg => (created = 0 /\ port = <<>>)
        /\ pc = "exited" => (exitCode # <<>> /\ exitCode[1] # 0)

C6_Witness ==
    /\ pc = "exited" /\ exitCode = <<1>>
    /\ port = <<9090>> /\ 9090 \in busy
    /\ created = 1 /\ listener = "closed"
    /\ sig = <<>>

\* the port the command line asks for
RequestedPort == IF argv = <<>> THEN 8080 ELSE IntParse(argv[1]).val

\* C7 as stated: the bound port is 8080 without an argument and exactly p
\* with a first argument that parses as p, and the banner shows it.
C7_BoundPortIsArgument ==
    boundPort # <<>> =>
        /\ boundPort = <<RequestedPort>>
        /\ out.banner # <<>> => out.banner = boundPort

\* C7 amended: the same for every p other than 0; extra arguments are
\* ignored.  (With p = 0 the kernel picks the port and the banner shows 0.)
C7_BoundPortIsNonZeroArgument ==
    (boundPort # <<>> /\ RequestedPort # 0) =>
        /\ boundPort = <<RequestedPort>>
        /\ out.banner # <<>> => out.banner = boundPort
        /\ argv = <<>> => boundPort = <<8080>>
        /\ (argv # <<>> /\ argv[1] = Arg9090) => boundPort = <<9090>>

C7_Witness ==
    /\ Len(argv) = 2 /\ argv[1] = Arg9090
    /\ listener = "bound"
    /\ boundPort = <<9090>> /\ out.banner = <<9090>>

\* C8: whatever the request path and the working directory, the local path
\* translate_path returns is made of plain names below the directory that
\* holds server.py.
C8_PathStaysInRoot ==
    tp.done =>
        /\ IsPrefix(ScriptDir, OsResolve(tp.result.comps, <<>>))
        /\ \A i \in DOMAIN tp.result.comps :
              /\ tp.result.comps[i] \notin {Dot, DotDot, <<>>}
              /\ \A j \in DOMAIN tp.result.comps[i] :
                    tp.result.comps[i][j] # "/"

C8_Witness ==
    /\ tp.done
    /\ tp.path = <<".", ".", "/", "%2e", "%2e">>
    /\ CwdComps(launch) # ScriptDir
    /\ tp.result.comps = ScriptDir

ListenerInv ==
    /\ created <= 1
    /\ pc \in {"banner", "serving", "handling"}
          => (listener = "bound" /\ created = 1)
    /\ listener = "bound" => (boundPort # <<>> /\ created = 1)
    /\ pc = "exited" => listener # "bound"
    /\ directory = ScriptDir

\* C9: at most one listener is ever created; it is bound in every state
\* from the banner to the end of the serve loop and closed in every state
\* after the process ended; the port and the root never change once set.
C9_ListenerLifecycle ==
    [][/\ ListenerInv'
       /\ created' >= created
       /\ listener = "closed" => listener' = "closed"
       /\ boundPort # <<>> => boundPort' = boundPort
       /\ port # <<>> => port' = port
       /\ directory' = directory]_vars

C9_Witness ==
    /\ pc = "exited" /\ exitCode = <<1>>
    /\ listener = "closed" /\ boundPort # <<>>
    /\ answered # <<>>

Handling == {c \in Conns : conn[c].st = "handling"}

\* C10: at most one connection is being handled; a connection is accepted
\* only when no handler runs; connections are answered in the order they
\* were accepted; and while the client of the handled connection stays
\* silent nothing else is accepted or answered.
C10_OneAtATime ==
    [][/\ Cardinality(Handling') <= 1
       /\ accepted' # accepted => Handling = {}
       /\ answered' # answered => IsPrefix(answered', accepted')
       /\ (\E c \in Handling : conn[c].io = "silent" /\ conn'[c].io = "silent"
                               /\ conn'[c].st = "handling")
             => (accepted' = accepted /\ answered' = answered)]_vars

C10_Witness ==
    \E c, d \in Conns :
        /\ conn[c].st = "handling" /\ conn[c].io = "silent"
        /\ conn[d].st = "queued" /\ conn[d].io = "sent"
        /\ answered = <<>>

=============================================================================
